---- MODULE Spec2Model ----
(***************************************************************************)
(* OnePageUnsplash: the App view (fetchPhotos / useEffect), the loadData   *)
(* promise chain, and the colour conversions of utils (hexToRgb,           *)
(* rgbToHsl, hslToRgb, rgbToHex, hexToComplimentary, invertColor).         *)
(*                                                                         *)
(* Strings handled character by character (hex colours) are sequences of   *)
(* one-character strings.  IEEE doubles of the HSL arithmetic are modelled *)
(* as exact rationals <<numerator, denominator>>: where the exact value of *)
(* a channel is a tie k + 1/2 the double may round to k instead of k + 1.  *)
(***************************************************************************)
EXTENDS Integers, Sequences, FiniteSets, TLC

(***************************************************************************)
(* Bounds                                                                  *)
(***************************************************************************)
\* calls of loadData in one behaviour (Spec, LoaderSpec)
MaxCalls == 2

\* calls of loadData in one behaviour of FairLoaderSpec
MaxFairCalls == 1

\* length of the hex strings passed to the colour functions
MaxHexLen == 7

\* colour functions applied one after the other to one argument
MaxOps == 2

\* channel values sampled from 0..255, besides 15, 16 and 255
MaxChannelSamples == 7

(***************************************************************************)
(* Part 1: loadData and the App view                                       *)
(***************************************************************************)
VARIABLES calls, photos, name, hobby, effectPending

\* Part 2 (colour conversions): the argument, the functions applied, the value
VARIABLES arg, ops, val

loaderVars == <<calls, photos, name, hobby, effectPending>>

colorVars == <<arg, ops, val>>

vars == <<calls, photos, name, hobby, effectPending, arg, ops, val>>

URL == "https://apis.scrimba.com/unsplash/photos/random"

HobbyValues == {"Paint", "Surf", ""}

\* HTTP status codes the network may answer with
Statuses == {200, 201, 404, 500}

\* urls a direct caller of loadData passes (options.url may also be absent)
CallerUrls == {"", "u"}

NoError == [kind |-> "none", status |-> 0]
\* new Error("URL is required")
MissingArgument == [kind |-> "MissingArgument", status |-> 0]
\* rejection of fetch(): transport-level failure
NetworkFailure == [kind |-> "NetworkFailure", status |-> 0]
\* rejection of response.json()
ParseFailure == [kind |-> "ParseFailure", status |-> 0]
\* an exception raised inside a caller-supplied callback
CallbackError == [kind |-> "CallbackError", status |-> 0]

\* new Error(`HTTP error! status: ${response.status}`)
HttpStatus(status) == [kind |-> "HttpStatus", status |-> status]

NoData == <<>>

\* the body the photo API answers request c with (count=1: one photo)
PhotoData(c, query) == <<[req |-> c, query |-> query]>>

\* `${URL}/?count=1&query=${hobby}` or `${URL}/?count=1`
photosUrl(h) == IF h # "" THEN URL \o "/?count=1&query=" \o h ELSE URL \o "/?count=1"

UrlMissingOnlyAbsent(options) == ~options.hasUrl

\* !options.url
UrlMissing(options) == ~options.hasUrl \/ options.url = ""

ResponseOkBelow500(status) == status < 500

\* response.ok
ResponseOk(status) == status >= 200 /\ status <= 299

NewCall(options, origin, query) ==
  [ origin       |-> origin,
    hasUrl       |-> options.hasUrl,
    url          |-> options.url,
    hasOnSuccess |-> options.hasOnSuccess,
    hasOnError   |-> options.hasOnError,
    query        |-> query,
    pc           |-> IF UrlMissing(options) THEN "threw" ELSE "fetching",
    thrown       |-> IF UrlMissing(options) THEN MissingArgument ELSE NoError,
    fetchStarted |-> ~UrlMissing(options),
    status       |-> 0,
    parsed       |-> FALSE,
    data         |-> NoData,
    error        |-> NoError,
    failure      |-> NoError,
    nSuccess     |-> 0,
    nError       |-> 0,
    nLog         |-> 0,
    nAppLog      |-> 0,
    errArg       |-> NoError,
    unhandled    |-> FALSE ]

\* loadData(options): the synchronous part, lines 322-327
loadData(options, origin, query) ==
  calls' = Append(calls, NewCall(options, origin, query))

LoaderInit ==
  /\ calls = <<>>
  /\ photos = <<>>
  /\ name = "Renato"
  /\ hobby = "Paint"
  /\ effectPending = TRUE

\* a caller other than the view calls loadData
CallLoadData(max) ==
  /\ Len(calls) < max
  /\ \E hasUrl \in BOOLEAN, u \in CallerUrls, s \in BOOLEAN, e \in BOOLEAN :
       /\ (~hasUrl => u = "")
       /\ loadData([hasUrl |-> hasUrl, url |-> u, hasOnSuccess |-> s, hasOnError |-> e],
                   "caller", "")
  /\ UNCHANGED <<photos, name, hobby, effectPending, colorVars>>

\* setHobby(h): the state setter of line 10; a changed hobby re-runs the effect
SetHobby ==
  /\ \E h \in HobbyValues :
       /\ h # hobby
       /\ hobby' = h
  /\ effectPending' = TRUE
  /\ UNCHANGED <<calls, photos, name, colorVars>>

\* useEffect(() => { fetchPhotos(); }, [ hobby ]) running fetchPhotos
fetchPhotos ==
  /\ effectPending
  /\ Len(calls) < MaxCalls
  /\ loadData([hasUrl |-> TRUE, url |-> photosUrl(hobby),
               hasOnSuccess |-> TRUE, hasOnError |-> TRUE], "App", hobby)
  /\ effectPending' = FALSE
  /\ UNCHANGED <<photos, name, hobby, colorVars>>

Upd(c, r) == calls' = [calls EXCEPT ![c] = r]

\* fetch(options.url) rejects
FetchReject(c) ==
  /\ calls[c].pc = "fetching"
  /\ Upd(c, [calls[c] EXCEPT !.pc = "catch", !.error = NetworkFailure,
                             !.failure = NetworkFailure])
  /\ UNCHANGED <<photos, name, hobby, effectPending, colorVars>>

\* fetch(options.url) resolves with a response
FetchResolve(c) ==
  /\ calls[c].pc = "fetching"
  /\ \E status \in Statuses :
       Upd(c, [calls[c] EXCEPT !.pc = "then1", !.status = status])
  /\ UNCHANGED <<photos, name, hobby, effectPending, colorVars>>

\* .then(response => { if (!response.ok) throw ...; return response.json(); })
ThenResponse(c) ==
  /\ calls[c].pc = "then1"
  /\ IF ~ResponseOk(calls[c].status)
       THEN Upd(c, [calls[c] EXCEPT !.pc = "catch",
                                    !.error = HttpStatus(calls[c].status),
                                    !.failure = HttpStatus(calls[c].status)])
       ELSE Upd(c, [calls[c] EXCEPT !.pc = "json", !.parsed = TRUE])
  /\ UNCHANGED <<photos, name, hobby, effectPending, colorVars>>

\* response.json() resolves with the parsed body
JsonResolve(c) ==
  /\ calls[c].pc = "json"
  /\ Upd(c, [calls[c] EXCEPT !.pc = "then2",
                             !.data = PhotoData(c, calls[c].query)])
  /\ UNCHANGED <<photos, name, hobby, effectPending, colorVars>>

\* response.json() rejects
JsonReject(c) ==
  /\ calls[c].pc = "json"
  /\ Upd(c, [calls[c] EXCEPT !.pc = "catch", !.error = ParseFailure,
                             !.failure = ParseFailure])
  /\ UNCHANGED <<photos, name, hobby, effectPending, colorVars>>

AppOnSuccessLatestOnly(c, data) ==
  photos' = IF c = Len(calls) THEN data ELSE photos

\* onSuccess: data => { setPhotos(data); }
AppOnSuccess(c, data) == photos' = data

AppOnErrorClears(c) == photos' = <<>> /\ UNCHANGED <<name, hobby>>

\* onError: error => { console.error("Failed to fetch photos: ", error); }
AppOnError(c) == UNCHANGED <<photos, name, hobby>>

\* .then(data => { if (options.onSuccess) options.onSuccess(data); })
ThenData(c) ==
  /\ calls[c].pc = "then2"
  /\ IF ~calls[c].hasOnSuccess
       THEN /\ Upd(c, [calls[c] EXCEPT !.pc = "done"])
            /\ UNCHANGED photos
       ELSE IF calls[c].origin = "App"
         THEN /\ Upd(c, [calls[c] EXCEPT !.pc = "done", !.nSuccess = @ + 1])
              /\ AppOnSuccess(c, calls[c].data)
         ELSE \* a caller's onSuccess may itself raise an error
              /\ \E throws \in BOOLEAN :
                   Upd(c, [calls[c] EXCEPT
                             !.pc = IF throws THEN "catch" ELSE "done",
                             !.error = IF throws THEN CallbackError ELSE @,
                             !.nSuccess = @ + 1])
              /\ UNCHANGED photos
  /\ UNCHANGED <<name, hobby, effectPending, colorVars>>

SinkAlwaysLog(r) == "log"

\* if (options.onError) options.onError(error); else console.error(...)
Sink(r) == IF r.hasOnError THEN "onError" ELSE "log"

\* .catch(error => { ... })
Catch(c) ==
  /\ calls[c].pc = "catch"
  /\ IF Sink(calls[c]) = "onError"
       THEN IF calls[c].origin = "App"
         THEN /\ Upd(c, [calls[c] EXCEPT !.pc = "done", !.nError = @ + 1,
                                         !.nAppLog = @ + 1,
                                         !.errArg = calls[c].error])
              /\ AppOnError(c)
         ELSE \* a caller's onError may itself raise: the promise returned
              \* by catch() rejects and nobody handles it
              /\ \E throws \in BOOLEAN :
                   Upd(c, [calls[c] EXCEPT !.pc = "done", !.nError = @ + 1,
                                           !.errArg = calls[c].error,
                                           !.unhandled = throws])
              /\ UNCHANGED <<photos, name, hobby>>
       ELSE /\ Upd(c, [calls[c] EXCEPT !.pc = "done", !.nLog = @ + 1,
                                       !.errArg = calls[c].error])
            /\ UNCHANGED <<photos, name, hobby>>
  /\ UNCHANGED <<effectPending, colorVars>>

(***************************************************************************)
(* Part 2: colour conversions                                              *)
(***************************************************************************)
\* the characters hex strings are drawn from
HexChars == {"#", "0", "a", "F"}

LowerDigits == <<"0", "1", "2", "3", "4", "5", "6", "7",
                 "8", "9", "a", "b", "c", "d", "e", "f">>

UpperDigits == <<"0", "1", "2", "3", "4", "5", "6", "7",
                 "8", "9", "A", "B", "C", "D", "E", "F">>

\* the number NaN, among channel values that are otherwise 0..255
NaN == 0 - 1

IsHexDigit(ch) == \E i \in 1..16 : LowerDigits[i] = ch \/ UpperDigits[i] = ch

DigitValue(ch) ==
  (CHOOSE i \in 1..16 : LowerDigits[i] = ch \/ UpperDigits[i] = ch) - 1

\* the values a tagged value of the calculator takes
HexVal(s) == [tag |-> "hex", s |-> s, c |-> <<>>]

RgbVal(c) == [tag |-> "rgb", s |-> <<>>, c |-> c]

ErrVal(kind) == [tag |-> "error", s |-> <<kind>>, c |-> <<>>]

\* str.slice(from, to), 0-based, to exclusive
Slice(str, from, to) ==
  IF from >= Len(str) \/ to <= from THEN <<>>
  ELSE SubSeq(str, from + 1, IF to > Len(str) THEN Len(str) ELSE to)

RECURSIVE ParseHexPrefix(_, _)
\* the value of the longest prefix of hex digits of str, acc so far
ParseHexPrefix(str, acc) ==
  IF str = <<>> \/ ~IsHexDigit(Head(str)) THEN acc
  ELSE ParseHexPrefix(Tail(str), acc * 16 + DigitValue(Head(str)))

\* parseInt(str, 16): NaN unless str starts with a hex digit
parseInt16(str) ==
  IF str = <<>> \/ ~IsHexDigit(Head(str)) THEN NaN ELSE ParseHexPrefix(str, 0)

RECURSIVE DigitsOf(_)
DigitsOf(n) ==
  IF n < 16 THEN <<LowerDigits[n + 1]>>
  ELSE Append(DigitsOf(n \div 16), LowerDigits[(n % 16) + 1])

\* n.toString(16)
toString16(n) == IF n = NaN THEN <<"N", "a", "N">> ELSE DigitsOf(n)

\* str.indexOf("#"), -1 when absent
IndexOfHash(str) ==
  IF \E i \in 1..Len(str) : str[i] = "#"
    THEN (CHOOSE i \in 1..Len(str) :
            str[i] = "#" /\ \A j \in 1..(i - 1) : str[j] # "#") - 1
    ELSE 0 - 1

ReplaceLeadingHash(str) ==
  IF IndexOfHash(str) = 0 THEN Tail(str) ELSE str

\* str.replace("#", ""): the first "#" goes, wherever it stands
ReplaceFirstHash(str) ==
  IF IndexOfHash(str) < 0 THEN str
  ELSE SubSeq(str, 1, IndexOfHash(str)) \o SubSeq(str, IndexOfHash(str) + 2, Len(str))

\* hex.split("").map(char => char + char).join("")
DoubleChars(str) ==
  [i \in 1..(2 * Len(str)) |-> str[(i + 1) \div 2]]

\* the three parseInt(hex.slice(..), 16) of a six-character string
ParseChannels(hex) ==
  << parseInt16(Slice(hex, 0, 2)),
     parseInt16(Slice(hex, 2, 4)),
     parseInt16(Slice(hex, 4, 6)) >>

\* switch (hex.length) { case 3: ... case 6: ... default: ... }
HexLengthCase(n) == IF n = 3 THEN "three" ELSE IF n = 6 THEN "six" ELSE "default"

\* hexToRgb(hex)
hexToRgb(hex) ==
  LET h1 == ReplaceFirstHash(hex)
      k  == HexLengthCase(Len(h1))
  IN  IF k = "three" THEN RgbVal(ParseChannels(DoubleChars(h1)))
      ELSE IF k = "six" THEN RgbVal(ParseChannels(h1))
      ELSE ErrVal("InvalidFormat")

(***************************************************************************)
(* Exact rationals <<n, d>>, d > 0, in lowest terms; <<0, 0>> is NaN       *)
(***************************************************************************)
RECURSIVE Gcd(_, _)
Gcd(a, b) == IF b = 0 THEN a ELSE Gcd(b, a % b)

Abs(a) == IF a < 0 THEN 0 - a ELSE a

RNaN == <<0, 0>>

RIsNaN(x) == x[2] = 0

RNorm(n, d) ==
  LET g == Gcd(Abs(n), Abs(d))
  IN  IF d = 0 THEN RNaN
      ELSE IF d < 0 THEN <<(0 - n) \div g, (0 - d) \div g>>
      ELSE <<n \div g, d \div g>>

RInt(n) == <<n, 1>>

RAdd(x, y) ==
  IF RIsNaN(x) \/ RIsNaN(y) THEN RNaN
  ELSE LET g == Gcd(x[2], y[2])
       IN  RNorm(x[1] * (y[2] \div g) + y[1] * (x[2] \div g), (x[2] \div g) * y[2])

RNeg(x) == <<0 - x[1], x[2]>>

RSub(x, y) == RAdd(x, RNeg(y))

RMul(x, y) ==
  IF RIsNaN(x) \/ RIsNaN(y) THEN RNaN
  ELSE LET g1 == Gcd(Abs(x[1]), y[2])
           g2 == Gcd(Abs(y[1]), x[2])
       IN  RNorm((x[1] \div g1) * (y[1] \div g2), (x[2] \div g2) * (y[2] \div g1))

\* x / y; a division by zero of the code below gives NaN (0/0) only
RDiv(x, y) ==
  IF RIsNaN(x) \/ RIsNaN(y) \/ y[1] = 0 THEN RNaN
  ELSE RMul(x, IF y[1] < 0 THEN <<0 - y[2], 0 - y[1]>> ELSE <<y[2], y[1]>>)

\* x < y; false when either is NaN
RLt(x, y) ==
  /\ ~RIsNaN(x)
  /\ ~RIsNaN(y)
  /\ RSub(x, y)[1] < 0

RFloor(x) == x[1] \div x[2]

\* x % m for x >= 0, m > 0
RMod(x, m) == IF RIsNaN(x) THEN RNaN ELSE RSub(x, RInt(m * RFloor(RDiv(x, RInt(m)))))

\* Math.round(x): the integer nearest to x, halves upwards
MathRound(x) == IF RIsNaN(x) THEN NaN ELSE RFloor(RAdd(x, <<1, 2>>))

\* a channel as a double
RChannel(c) == IF c = NaN THEN RNaN ELSE RInt(c)

\* Math.max / Math.min of three doubles: NaN if any is NaN
RMax3(x, y, z) ==
  IF RIsNaN(x) \/ RIsNaN(y) \/ RIsNaN(z) THEN RNaN
  ELSE LET m == IF RLt(x, y) THEN y ELSE x IN IF RLt(m, z) THEN z ELSE m

RMin3(x, y, z) ==
  IF RIsNaN(x) \/ RIsNaN(y) \/ RIsNaN(z) THEN RNaN
  ELSE LET m == IF RLt(y, x) THEN y ELSE x IN IF RLt(z, m) THEN z ELSE m

(***************************************************************************)
(* rgbToHsl, hslToRgb, rgbToHex, hexToComplimentary                        *)
(***************************************************************************)
\* the literals 1.0472, 2.0944, 4.1888, 6.2832 of rgbToHsl
Lit10472 == RNorm(10472, 10000)

Lit20944 == RNorm(20944, 10000)

Lit41888 == RNorm(41888, 10000)

Lit62832 == RNorm(62832, 10000)

\* h /= 6.2832 * 360 + 0
HueDivisor == RAdd(RMul(Lit62832, RInt(360)), RInt(0))

\* rgbToHsl(r, g, b): <<h, s, l>>
rgbToHsl(r, g, b) ==
  LET RED   == RDiv(RChannel(r), RInt(255))
      GREEN == RDiv(RChannel(g), RInt(255))
      BLUE  == RDiv(RChannel(b), RInt(255))
      MAX   == RMax3(RED, GREEN, BLUE)
      MIN   == RMin3(RED, GREEN, BLUE)
      DELTA == RSub(MAX, MIN)
      l     == RDiv(RAdd(MAX, MIN), RInt(2))
      \* switch (MAX): NaN matches no case and leaves h = 0
      hRad  == IF RIsNaN(MAX) THEN RInt(0)
               ELSE IF MAX = RED
                 THEN RAdd(RDiv(RMul(Lit10472, RSub(GREEN, BLUE)), DELTA),
                           IF RLt(GREEN, BLUE) THEN Lit62832 ELSE RInt(0))
               ELSE IF MAX = GREEN
                 THEN RAdd(RDiv(RMul(Lit10472, RSub(BLUE, RED)), DELTA), Lit20944)
               ELSE RAdd(RDiv(RMul(Lit10472, RSub(RED, GREEN)), DELTA), Lit41888)
      h     == RDiv(hRad, HueDivisor)
      s     == IF RLt(<<1, 2>>, l)
                 THEN RDiv(DELTA, RSub(RSub(RInt(2), MAX), MIN))
                 ELSE RDiv(DELTA, RAdd(MAX, MIN))
  IN  IF DELTA = RInt(0) THEN <<RInt(0), RInt(0), l>> ELSE <<h, s, l>>

\* hueToRgb(p, q, t)
hueToRgb(p, q, t) ==
  LET t1 == IF RLt(t, RInt(0)) THEN RAdd(t, RInt(1)) ELSE t
      t2 == IF RLt(RInt(1), t1) THEN RSub(t1, RInt(1)) ELSE t1
  IN  IF RLt(t2, <<1, 6>>)
        THEN RAdd(p, RMul(RMul(RSub(q, p), RInt(6)), t2))
      ELSE IF RLt(t2, <<1, 2>>) THEN q
      ELSE IF RLt(t2, <<2, 3>>)
        THEN RAdd(p, RMul(RMul(RSub(q, p), RSub(<<2, 3>>, t2)), RInt(6)))
      ELSE p

\* hslToRgb(h, s, l): <<r, g, b>>
hslToRgb(h, s, l) ==
  LET q == IF RLt(l, <<1, 2>>)
             THEN RMul(l, RAdd(RInt(1), s))
             ELSE RSub(RAdd(l, s), RMul(l, s))
      p == RSub(RMul(RInt(2), l), q)
  IN  IF s = RInt(0)
        THEN LET gray == MathRound(RMul(l, RInt(255))) IN <<gray, gray, gray>>
        ELSE << MathRound(RMul(hueToRgb(p, q, RAdd(h, <<1, 3>>)), RInt(255))),
                MathRound(RMul(hueToRgb(p, q, h), RInt(255))),
                MathRound(RMul(hueToRgb(p, q, RSub(h, <<1, 3>>)), RInt(255))) >>

RECURSIVE BitOr(_, _)
\* a | b on non-negative integers
BitOr(a, b) ==
  IF a = 0 THEN b
  ELSE IF b = 0 THEN a
  ELSE 2 * BitOr(a \div 2, b \div 2) + (IF a % 2 = 1 \/ b % 2 = 1 THEN 1 ELSE 0)

\* ToInt32 of a channel: NaN becomes 0
ToInt32(c) == IF c = NaN THEN 0 ELSE c

\* a << n, for values that stay below 2^31
ShiftLeft(a, n) == ToInt32(a) * (2 ^ n)

\* 0x1000000
LeadingOne == 16777216

RgbToHexNoLeadingOne(r, g, b) ==
  <<"#">> \o toString16(BitOr(BitOr(ToInt32(b), ShiftLeft(g, 8)), ShiftLeft(r, 16)))

\* rgbToHex(r, g, b)
rgbToHex(r, g, b) ==
  LET rgb == BitOr(BitOr(ToInt32(b), ShiftLeft(g, 8)), ShiftLeft(r, 16))
  IN  <<"#">> \o Tail(toString16(BitOr(LeadingOne, rgb)))

\* h = (h * 360 + 180) % 360 / 360
RotateHue(h) ==
  RDiv(RMod(RAdd(RMul(h, RInt(360)), RInt(180)), 360), RInt(360))

\* hexToComplimentary(hex)
hexToComplimentary(hex) ==
  LET rgb == hexToRgb(hex)
      hsl == rgbToHsl(rgb.c[1], rgb.c[2], rgb.c[3])
      cmp == hslToRgb(RotateHue(hsl[1]), hsl[2], hsl[3])
  IN  IF rgb.tag = "error" THEN rgb
      ELSE HexVal(rgbToHex(cmp[1], cmp[2], cmp[3]))

(***************************************************************************)
(* padZero, invertColor                                                    *)
(***************************************************************************)
PadZeroNever(str) == str

\* padZero(str)
padZero(str) == IF Len(str) = 1 THEN <<"0">> \o str ELSE str

\* 255 - channel
Complement(c) == IF c = NaN THEN NaN ELSE 255 - c

\* r * 0.299 + g * 0.587 + b * 0.114 > 186, in thousandths
LumaAboveThreshold(r, g, b) ==
  /\ r # NaN /\ g # NaN /\ b # NaN
  /\ r * 299 + g * 587 + b * 114 > 186 * 1000

\* invertColor(hex, bw)
invertColor(hex, bw) ==
  LET h1 == ReplaceLeadingHash(hex)
      h2 == IF Len(h1) = 3
              THEN <<h1[1], h1[1], h1[2], h1[2], h1[3], h1[3]>>
              ELSE h1
      r  == parseInt16(Slice(h2, 0, 2))
      g  == parseInt16(Slice(h2, 2, 4))
      b  == parseInt16(Slice(h2, 4, 6))
  IN  IF Len(h2) # 6 THEN ErrVal("InvalidFormat")
      ELSE IF bw
        THEN IF LumaAboveThreshold(r, g, b)
               THEN HexVal(<<"#", "0", "0", "0", "0", "0", "0">>)
               ELSE HexVal(<<"#", "F", "F", "F", "F", "F", "F">>)
      ELSE HexVal(<<"#">> \o padZero(toString16(Complement(r)))
                          \o padZero(toString16(Complement(g)))
                          \o padZero(toString16(Complement(b))))

ColorIdle ==
  /\ arg = [tag |-> "none"]
  /\ ops = <<>>
  /\ val = [tag |-> "none"]

(***************************************************************************)
(* Spec: the App view and the loadData calls it issues                     *)
(***************************************************************************)
Init == LoaderInit /\ ColorIdle

Next ==
  \/ SetHobby
  \/ fetchPhotos
  \/ \E c \in 1..Len(calls) : FetchReject(c)
  \/ \E c \in 1..Len(calls) : FetchResolve(c)
  \/ \E c \in 1..Len(calls) : ThenResponse(c)
  \/ \E c \in 1..Len(calls) : JsonResolve(c)
  \/ \E c \in 1..Len(calls) : JsonReject(c)
  \/ \E c \in 1..Len(calls) : ThenData(c)
  \/ \E c \in 1..Len(calls) : Catch(c)

Spec == Init /\ [][Next]_vars

(***************************************************************************)
(* LoaderSpec: loadData called directly, with every shape of options       *)
(***************************************************************************)
LoaderNext ==
  \/ CallLoadData(MaxCalls)
  \/ \E c \in 1..Len(calls) : FetchReject(c)
  \/ \E c \in 1..Len(calls) : FetchResolve(c)
  \/ \E c \in 1..Len(calls) : ThenResponse(c)
  \/ \E c \in 1..Len(calls) : JsonResolve(c)
  \/ \E c \in 1..Len(calls) : JsonReject(c)
  \/ \E c \in 1..Len(calls) : ThenData(c)
  \/ \E c \in 1..Len(calls) : Catch(c)

LoaderSpec == Init /\ [][LoaderNext]_vars

\* The event loop runs every queued promise reaction: the then and catch
\* handlers of a settled promise are weakly fair.  The network is not: a
\* fetch may stay pending for ever.
LoaderFairness ==
  \A c \in 1..MaxFairCalls :
    /\ WF_vars(c <= Len(calls) /\ ThenResponse(c))
    /\ WF_vars(c <= Len(calls) /\ ThenData(c))
    /\ WF_vars(c <= Len(calls) /\ Catch(c))

FairLoaderNext ==
  \/ CallLoadData(MaxFairCalls)
  \/ \E c \in 1..Len(calls) : FetchReject(c)
  \/ \E c \in 1..Len(calls) : FetchResolve(c)
  \/ \E c \in 1..Len(calls) : ThenResponse(c)
  \/ \E c \in 1..Len(calls) : JsonResolve(c)
  \/ \E c \in 1..Len(calls) : JsonReject(c)
  \/ \E c \in 1..Len(calls) : ThenData(c)
  \/ \E c \in 1..Len(calls) : Catch(c)

FairLoaderSpec == Init /\ [][FairLoaderNext]_vars /\ LoaderFairness

(***************************************************************************)
(* ColorSpec: the colour functions applied to every argument in bounds     *)
(***************************************************************************)
HexStrings == UNION {[1..n -> HexChars] : n \in 0..MaxHexLen}

Channels == {(k * 37) % 256 : k \in 0..MaxChannelSamples} \cup {15, 16, 255}

ColorInit ==
  /\ LoaderInit
  /\ arg \in {HexVal(str) : str \in HexStrings}
               \cup {RgbVal(<<r, g, b>>) : r \in Channels, g \in Channels, b \in Channels}
  /\ ops = <<>>
  /\ val = arg

ApplyHexToRgb ==
  /\ Len(ops) < MaxOps
  /\ val.tag = "hex"
  /\ val' = hexToRgb(val.s)
  /\ ops' = Append(ops, "hexToRgb")
  /\ UNCHANGED <<arg, loaderVars>>

ApplyRgbToHex ==
  /\ Len(ops) < MaxOps
  /\ val.tag = "rgb"
  /\ val' = HexVal(rgbToHex(val.c[1], val.c[2], val.c[3]))
  /\ ops' = Append(ops, "rgbToHex")
  /\ UNCHANGED <<arg, loaderVars>>

ApplyInvertColor ==
  /\ Len(ops) < MaxOps
  /\ val.tag = "hex"
  /\ \E bw \in BOOLEAN :
       /\ val' = invertColor(val.s, bw)
       /\ ops' = Append(ops, IF bw THEN "invertColorBW" ELSE "invertColor")
  /\ UNCHANGED <<arg, loaderVars>>

ApplyHexToComplimentary ==
  /\ Len(ops) < MaxOps
  /\ val.tag = "hex"
  /\ val' = hexToComplimentary(val.s)
  /\ ops' = Append(ops, "hexToComplimentary")
  /\ UNCHANGED <<arg, loaderVars>>

ColorNext ==
  \/ ApplyHexToRgb
  \/ ApplyRgbToHex
  \/ ApplyInvertColor
  \/ ApplyHexToComplimentary

ColorSpec == ColorInit /\ [][ColorNext]_vars

(***************************************************************************)
(* Claims about loadData (LoaderSpec, FairLoaderSpec)                      *)
(***************************************************************************)
Calls == 1..Len(calls)

\* the response of call c arrived with a status outside 200..299
RespondedNon2xx(c) ==
  /\ c \in Calls
  /\ calls[c].status # 0
  /\ ~(calls[c].status \in 200..299)

\* C1: a loadData call whose url is absent or empty throws MissingArgument
\* synchronously; no fetch is started for it and neither onSuccess nor
\* onError is ever invoked for it.
C1_MissingUrlThrowsBeforeFetch ==
  \A c \in Calls :
    (~calls[c].hasUrl \/ calls[c].url = "") =>
      /\ calls[c].thrown = MissingArgument
      /\ calls[c].pc = "threw"
      /\ ~calls[c].fetchStarted
      /\ calls[c].status = 0
      /\ calls[c].nSuccess = 0
      /\ calls[c].nError = 0

\* C1 witness: loadData({url: "", onSuccess, onError}) has thrown
C1_Witness ==
  \E c \in Calls :
    /\ calls[c].hasUrl /\ calls[c].url = ""
    /\ calls[c].hasOnSuccess /\ calls[c].hasOnError
    /\ calls[c].thrown = MissingArgument

\* C2: when a call with an onError callback gets a response with a non-2xx
\* status N, onError is eventually invoked with the HttpStatus error
\* carrying N; the body of such a response is never parsed and onSuccess
\* is never invoked for the call.
C2_Non2xxReachesOnError ==
  \A c \in 1..MaxFairCalls :
    /\ [](RespondedNon2xx(c) => ~calls[c].parsed /\ calls[c].nSuccess = 0)
    /\ (RespondedNon2xx(c) /\ calls[c].hasOnError)
         ~> (/\ c \in Calls
             /\ calls[c].nError = 1
             /\ calls[c].errArg = HttpStatus(calls[c].status))

\* C2 witness: a 404 response was delivered to onError as HttpStatus(404)
C2_Witness ==
  \E c \in Calls :
    /\ calls[c].status = 404
    /\ calls[c].hasOnError
    /\ calls[c].nError = 1
    /\ calls[c].errArg = HttpStatus(404)
    /\ calls[c].pc = "done"

\* the request of call c failed: transport, non-2xx status or body parse
RequestFailed(c) == calls[c].failure # NoError

C9_CallbacksMutuallyExclusive ==
  \A c \in Calls :
    /\ calls[c].nSuccess <= 1
    /\ calls[c].nError <= 1
    /\ ~(calls[c].nSuccess >= 1 /\ calls[c].nError >= 1)
    /\ calls[c].nSuccess >= 1 =>
         calls[c].status \in 200..299 /\ calls[c].parsed /\ calls[c].data # NoData
    /\ calls[c].nError >= 1 => RequestFailed(c)

(***************************************************************************)
(* Claims about the view (Spec)                                            *)
(***************************************************************************)
\* call c delivers its data to onSuccess in this step
DeliversData(c) == calls[c].pc = "then2" /\ calls'[c].pc = "done"

\* call c delivers its error to onError in this step
DeliversError(c) == calls[c].pc = "catch" /\ calls'[c].pc = "done"

\* C8: no guard drops the response of an earlier call: the data of a call
\* that is no longer the most recent one is still written to the photo list.
C8_NoStaleGuard ==
  [][\A c \in Calls :
       (DeliversData(c) /\ c < Len(calls)) => photos' = calls[c].data]_vars

\* C8 witness: the later call delivered its data, then the earlier one
\* overwrote it: the photos shown belong to the older request.
C8_Witness ==
  \E c, d \in Calls :
    /\ c < d
    /\ calls[d].nSuccess = 1
    /\ calls[c].nSuccess = 1
    /\ photos = calls[c].data
    /\ photos # calls[d].data

\* C10: a failed fetch changes neither the photo list nor name nor hobby,
\* and once a fetch has failed the data of a later fetch is still applied.
C10_FailedFetchLeavesView ==
  [][\A c \in Calls :
       /\ DeliversError(c) => UNCHANGED <<photos, name, hobby>>
       /\ (DeliversData(c) /\ \E d \in 1..(c - 1) : RequestFailed(d))
            => photos' = calls[c].data]_vars

\* C10 witness: a fetch of the view failed and was logged, the view state
\* is intact, and the data of a later fetch was applied.
C10_Witness ==
  \E c, d \in Calls :
    /\ c < d
    /\ RequestFailed(c) /\ calls[c].pc = "done" /\ calls[c].nAppLog = 1
    /\ calls[d].nSuccess = 1
    /\ photos = calls[d].data
    /\ name = "Renato"

(***************************************************************************)
(* Claims about the colour functions (ColorSpec)                           *)
(***************************************************************************)
\* str without an optional leading "#"
StripLeadingHash(str) == IF str # <<>> /\ Head(str) = "#" THEN Tail(str) ELSE str

\* a valid hex colour: 3 or 6 hex digits after an optional leading "#"
IsValidHexColour(str) ==
  /\ Len(StripLeadingHash(str)) \in {3, 6}
  /\ \A i \in 1..Len(StripLeadingHash(str)) : IsHexDigit(StripLeadingHash(str)[i])

\* the normal form of a valid hex colour: "#" and six lowercase digits
NormalForm(str) ==
  LET body == StripLeadingHash(str)
      six  == IF Len(body) = 3
                THEN <<body[1], body[1], body[2], body[2], body[3], body[3]>>
                ELSE body
  IN  <<"#">> \o [i \in 1..6 |-> LowerDigits[DigitValue(six[i]) + 1]]

\* the channels a valid hex colour denotes
ChannelsOf(str) ==
  LET n == NormalForm(str)
  IN  << 16 * DigitValue(n[2]) + DigitValue(n[3]),
         16 * DigitValue(n[4]) + DigitValue(n[5]),
         16 * DigitValue(n[6]) + DigitValue(n[7]) >>

IsChromatic(c) == ~(c[1] = c[2] /\ c[2] = c[3])

Max3(a, b, c) == IF a >= b /\ a >= c THEN a ELSE IF b >= c THEN b ELSE c

Min3(a, b, c) == IF a <= b /\ a <= c THEN a ELSE IF b <= c THEN b ELSE c

\* the hue of a chromatic colour in degrees, 0 <= hue < 360, as a rational
HueDegrees(c) ==
  LET mx == Max3(c[1], c[2], c[3])
      d  == mx - Min3(c[1], c[2], c[3])
      h  == IF mx = c[1] THEN RNorm(60 * (c[2] - c[3]), d)
            ELSE IF mx = c[2] THEN RAdd(RNorm(60 * (c[3] - c[1]), d), RInt(120))
            ELSE RAdd(RNorm(60 * (c[1] - c[2]), d), RInt(240))
  IN  IF RLt(h, RInt(0)) THEN RAdd(h, RInt(360)) ELSE h

\* the two hues are at most deg degrees apart on the colour circle
HuesWithin(x, y, deg) ==
  LET diff == IF RLt(x, y) THEN RSub(y, x) ELSE RSub(x, y)
      circ == IF RLt(RInt(180), diff) THEN RSub(RInt(360), diff) ELSE diff
  IN  ~RLt(RInt(deg), circ)

\* C4: for every RGB triple of integers in 0..255, rgbToHex gives "#" and
\* exactly six hex digits, two zero-padded digits per channel, and hexToRgb
\* of that string gives the triple back.
C4_RgbHexRoundTrip ==
  (arg.tag = "rgb" /\ ops # <<>> /\ ops[1] = "rgbToHex") =>
    /\ Len(ops) = 1 =>
         /\ val.tag = "hex"
         /\ Len(val.s) = 7
         /\ val.s[1] = "#"
         /\ \A i \in 2..7 : \E k \in 1..16 : val.s[i] = LowerDigits[k]
         /\ \A j \in 1..3 :
              16 * DigitValue(val.s[2 * j]) + DigitValue(val.s[2 * j + 1]) = arg.c[j]
    /\ ops = <<"rgbToHex", "hexToRgb">> => val = arg

\* C4 witness: (3, 15, 255) went through rgbToHex and hexToRgb
C4_Witness ==
  /\ arg = RgbVal(<<3, 15, 255>>)
  /\ ops = <<"rgbToHex", "hexToRgb">>
  /\ val = RgbVal(<<3, 15, 255>>)

\* C5 as stated: for every valid hex colour H,
\* invertColor(invertColor(H, false), false) is the string H itself.
C5_DoubleInvertIsSameString ==
  (arg.tag = "hex" /\ IsValidHexColour(arg.s) /\ ops = <<"invertColor", "invertColor">>)
    => val = arg

\* C5 amended: for every valid hex colour H,
\* invertColor(invertColor(H, false), false) is the normal form of H ("#"
\* and the six lowercase digits of H, a three-digit H doubled); it is the
\* string H itself when H is written in that form.
C5_DoubleInvertIsNormalForm ==
  (arg.tag = "hex" /\ IsValidHexColour(arg.s) /\ ops = <<"invertColor", "invertColor">>)
    => /\ val = HexVal(NormalForm(arg.s))
       /\ arg.s = NormalForm(arg.s) => val = arg

\* C5 witness: "#0a00a0", in normal form, inverted twice is itself
C5_Witness ==
  /\ arg = HexVal(<<"#", "0", "a", "0", "0", "a", "0">>)
  /\ ops = <<"invertColor", "invertColor">>
  /\ val = arg

\* C6: for every valid hex colour H with a hue,
\* hexToComplimentary(hexToComplimentary(H)) has the hue of H up to
\* rounding (30 degrees are allowed here).
C6_DoubleComplementKeepsHue ==
  ( /\ arg.tag = "hex"
    /\ IsValidHexColour(arg.s)
    /\ IsChromatic(ChannelsOf(arg.s))
    /\ ops = <<"hexToComplimentary", "hexToComplimentary">> )
    => /\ val.tag = "hex"
       /\ IsChromatic(ChannelsOf(val.s))
       /\ HuesWithin(HueDegrees(ChannelsOf(val.s)), HueDegrees(ChannelsOf(arg.s)), 30)

====
